---------------------------- MODULE Spec2Model ----------------------------
(***************************************************************************)
(* A model of scripts/fetch_essays.py: the URL resolver, the fetcher with  *)
(* bounded retries, the feed parser and main's exit behaviour.             *)
(*                                                                         *)
(* Python strings are sequences of one-character strings, so that          *)
(* endswith, slicing, split, lower, replace, strip and the substring test  *)
(* are computed character by character as the code computes them.          *)
(***************************************************************************)
EXTENDS Integers, Sequences, FiniteSets, TLC

VARIABLES
    pc,           \* where the run is: "main", "fetch", "parse", "write", "exit", "returned"
    feed_url,     \* args.feed
    out_file,     \* the file at args.out
    base_url,     \* fetch_feed: base_url
    variant,      \* fetch_feed: index of the loop over FEED_VARIANTS (0: not in fetch_feed)
    url,          \* fetch_feed / fetch_with_retries: url
    errors,       \* fetch_feed: errors
    max_retries,  \* fetch_with_retries: max_retries
    delay,        \* fetch_with_retries: delay
    attempt,      \* fetch_with_retries: attempt
    last_error,   \* fetch_with_retries: last_error (<<>> is None)
    sleeps,       \* the arguments of the time.sleep calls made so far
    requests,     \* the urlopen calls made so far, each with the kind of its outcome
    raised,       \* the exception the latest urlopen call raised (NoExc: none)
    raw,          \* the bytes a fetch returned
    posts,        \* main: posts
    exc,          \* the exception that ended the call
    status,       \* the process exit status (-1 while running)
    stderr        \* the lines main printed to sys.stderr

vars == <<pc, feed_url, out_file, base_url, variant, url, errors, max_retries,
          delay, attempt, last_error, sleeps, requests, raised, raw, posts,
          exc, status, stderr>>

---------------------------------------------------------------------------
(* Bounds of the explored inputs. *)

\* URL inputs are a host followed by at most MaxPieces path pieces.
MaxPieces == 2
\* fetch_with_retries is called directly with max_retries in 0..MaxRetriesArg.
MaxRetriesArg == 4
\* ... and with delay in 1..MaxDelay.
MaxDelay == 2
\* A structured feed document has at most MaxNodes elements below its root.
MaxNodes == 3
\* A single-node feed document's node has at most MaxChildren children.
MaxChildren == 2

---------------------------------------------------------------------------
(* Strings. *)

SeqsUpTo(S, n) == UNION {[1..k -> S] : k \in 0..n}

RECURSIVE Concat(_)
Concat(ss) == IF ss = <<>> THEN <<>> ELSE Head(ss) \o Concat(Tail(ss))

\* str.endswith
EndsWith(s, suffix) ==
    /\ Len(suffix) <= Len(s)
    /\ SubSeq(s, Len(s) - Len(suffix) + 1, Len(s)) = suffix

\* needle in s
Contains(s, needle) ==
    \E i \in 0..(Len(s) - Len(needle)) : SubSeq(s, i + 1, i + Len(needle)) = needle

\* str.lower, one character
UpperCase == <<"A","B","C","D","E","F","G","H","I","J","K","L","M",
               "N","O","P","Q","R","S","T","U","V","W","X","Y","Z">>
LowerCase == <<"a","b","c","d","e","f","g","h","i","j","k","l","m",
               "n","o","p","q","r","s","t","u","v","w","x","y","z">>

LowerChar(c) ==
    IF \E i \in 1..Len(UpperCase) : UpperCase[i] = c
    THEN LowerCase[CHOOSE i \in 1..Len(UpperCase) : UpperCase[i] = c]
    ELSE c

\* str.lower
Lower(s) == [i \in 1..Len(s) |-> LowerChar(s[i])]

\* str.replace(' ', '-')
ReplaceSpaces(s) == [i \in 1..Len(s) |-> IF s[i] = " " THEN "-" ELSE s[i]]

IsSpace(c) == c \in {" ", "\n", "\t"}

\* str.strip
RECURSIVE LStrip(_)
LStrip(s) == IF s # <<>> /\ IsSpace(Head(s)) THEN LStrip(Tail(s)) ELSE s

RECURSIVE RStrip(_)
RStrip(s) ==
    IF s # <<>> /\ IsSpace(s[Len(s)]) THEN RStrip(SubSeq(s, 1, Len(s) - 1)) ELSE s

Strip(s) == RStrip(LStrip(s))

\* str.split('/'): the pieces between the slashes, empty ones included
RECURSIVE SplitFrom(_, _, _)
SplitFrom(s, i, cur) ==
    IF i > Len(s) THEN <<cur>>
    ELSE IF s[i] = "/" THEN <<cur>> \o SplitFrom(s, i + 1, <<>>)
    ELSE SplitFrom(s, i + 1, Append(cur, s[i]))

Split(s) == SplitFrom(s, 1, <<>>)

---------------------------------------------------------------------------
(* URL resolver. *)

S_feed        == <<"/","f","e","e","d">>
S_feed_slash  == <<"/","f","e","e","d","/">>
S_latest_feed == <<"/","l","a","t","e","s","t","/","f","e","e","d">>
S_rss         == <<"/","r","s","s">>

\* a variant of FEED_VARIANTS with its first two templates exchanged
FEED_VARIANTS_swapped == <<S_feed_slash, S_feed, S_latest_feed, S_rss>>

\* FEED_VARIANTS: each template is "{base}" followed by a path
FEED_VARIANTS == <<S_feed, S_feed_slash, S_latest_feed, S_rss>>

\* variant.format(base=base_url)
Format(template, base) == base \o template

\* the suffixes normalize_feed_url tries, in the order it tries them
SUFFIXES == <<S_feed, S_feed_slash, S_latest_feed, S_rss>>

RECURSIVE StripFirstSuffix(_, _)
StripFirstSuffix(u, i) ==
    IF i > Len(SUFFIXES) THEN u
    ELSE IF EndsWith(u, SUFFIXES[i]) THEN SubSeq(u, 1, Len(u) - Len(SUFFIXES[i]))
    ELSE StripFirstSuffix(u, i + 1)

normalize_feed_url(u) == StripFirstSuffix(u, 1)

---------------------------------------------------------------------------
(* Inputs. *)

HostLong  == <<"h","t","t","p","s",":","/","/","e","x","a","m","p","l","e",".",
               "s","u","b","s","t","a","c","k",".","c","o","m">>
HostShort == <<"h">>

Pieces == {S_feed, S_feed_slash, S_latest_feed, S_rss, <<"/","p">>, <<"/">>}

\* the feed URLs the resolver is explored on
URLInputs ==
    {h \o Concat(t) : h \in {HostLong, HostShort}, t \in SeqsUpTo(Pieces, MaxPieces)}

\* the feed URLs whole runs are explored on
MainFeedURLs == {HostLong \o S_feed, HostShort \o S_latest_feed, HostShort}

---------------------------------------------------------------------------
(* Exceptions: a type, str(e), and for fetch_feed's aggregate error the    *)
(* lines joined into its message.                                          *)

Exc(type, msg) == [type |-> type, msg |-> msg, detail |-> <<>>, code |-> 0]

\* sys.exit(code) raises SystemExit(code)
SystemExit(code) == [type |-> "SystemExit", msg |-> "", detail |-> <<>>, code |-> code]

NoExc == Exc("None", "")

\* what urlopen / r.read() can raise and fetch_with_retries catches
NetErrors == {Exc("HTTPError", "HTTP Error 404: Not Found"),
              Exc("URLError", "<urlopen error timed out>")}

\* what they can raise that is neither URLError nor HTTPError
OtherErrors == {Exc("timeout", "The read operation timed out")}

---------------------------------------------------------------------------
(* Feed documents: the bytes of a response are either not well-formed XML  *)
(* or a tree, given as the elements below the root in document order, each *)
(* with its child elements.  A child's text is None (has_text = FALSE) or  *)
(* a string.                                                               *)

T_item        == <<"i","t","e","m">>
T_entry       == <<"e","n","t","r","y">>
T_image       == <<"i","m","a","g","e">>
T_title       == <<"t","i","t","l","e">>
T_link        == <<"l","i","n","k">>
T_pubDate     == <<"p","u","b","D","a","t","e">>
T_published   == <<"p","u","b","l","i","s","h","e","d">>
T_description == <<"d","e","s","c","r","i","p","t","i","o","n">>
T_content     == <<"c","o","n","t","e","n","t">>
T_Content     == <<"C","o","n","t","e","n","t">>
T_guid        == <<"g","u","i","d">>
T_content_encoded ==
    <<"c","o","n","t","e","n","t",":","e","n","c","o","d","e","d">>

\* ns = {'atom': 'http://www.w3.org/2005/Atom'}, as ElementTree writes it in a tag
ATOM_NS == <<"{","h","t","t","p",":","/","/","w","w","w",".","w","3",".","o","r","g",
             "/","2","0","0","5","/","A","t","o","m","}">>

\* the tag ElementTree gives <content:encoded> of the RSS content module
T_encoded_ns ==
    <<"{","h","t","t","p",":","/","/","p","u","r","l",".","o","r","g","/","r","s","s",
      "/","1",".","0","/","m","o","d","u","l","e","s","/","c","o","n","t","e","n","t",
      "/","}","e","n","c","o","d","e","d">>

El(tag, txt)  == [tag |-> tag, has_text |-> TRUE, text |-> txt]
ElNone(tag)   == [tag |-> tag, has_text |-> FALSE, text |-> <<>>]
Node(tag, cs) == [tag |-> tag, children |-> cs]

Doc(nodes) == [wellformed |-> TRUE, nodes |-> nodes]
Malformed  == [wellformed |-> FALSE, nodes |-> <<>>]

\* root.findall('.//' + tag): the elements below the root with that tag, in document order
findall(doc, tag) == SelectSeq(doc.nodes, LAMBDA n : n.tag = tag)

\* node.find(tag): the index of the first child with that tag, 0 for None
find(node, tag) ==
    IF \E i \in 1..Len(node.children) : node.children[i].tag = tag
    THEN CHOOSE i \in 1..Len(node.children) :
            /\ node.children[i].tag = tag
            /\ \A j \in 1..(i - 1) : node.children[j].tag # tag
    ELSE 0

\* el.text is truthy
HasText(el) == el.has_text /\ el.text # <<>>

\* a variant of text that does not strip
text_unstripped(node, tag) ==
    LET i == find(node, tag)
    IN  IF i # 0 /\ HasText(node.children[i]) THEN node.children[i].text ELSE <<>>

text(node, tag) ==
    LET i == find(node, tag)
    IN  IF i # 0 /\ HasText(node.children[i]) THEN Strip(node.children[i].text) ELSE <<>>

title_slug(title) == ReplaceSpaces(Lower(title))

\* a variant of slug_from that keeps the empty parts of the link
slug_from_unfiltered(link, title) ==
    IF link = <<>> THEN title_slug(title)
    ELSE Split(link)[Len(Split(link))]

slug_from(link, title) ==
    IF link = <<>> THEN title_slug(title)
    ELSE LET parts == SelectSeq(Split(link), LAMBDA p : p # <<>>)
         IN  IF parts # <<>> THEN parts[Len(parts)] ELSE title_slug(title)

\* the tag names parse_rss looks for in a child's tag
CONTENT_TAGS == <<T_content_encoded, T_content, T_description>>

\* any(x in child.tag.lower() for x in [...])
IsContentTag(tag) == \E k \in 1..Len(CONTENT_TAGS) : Contains(Lower(tag), CONTENT_TAGS[k])

\* a loop without its break: the last content child wins
content_of_last(item) ==
    IF \E i \in 1..Len(item.children) : IsContentTag(item.children[i].tag)
    THEN LET i == CHOOSE i \in 1..Len(item.children) :
                     /\ IsContentTag(item.children[i].tag)
                     /\ \A j \in (i + 1)..Len(item.children) :
                           ~IsContentTag(item.children[j].tag)
         IN  IF HasText(item.children[i]) THEN item.children[i].text ELSE <<>>
    ELSE <<>>

\* the loop over the children of an item: the text of the first content child, or ''
content_of(item) ==
    IF \E i \in 1..Len(item.children) : IsContentTag(item.children[i].tag)
    THEN LET i == CHOOSE i \in 1..Len(item.children) :
                     /\ IsContentTag(item.children[i].tag)
                     /\ \A j \in 1..(i - 1) : ~IsContentTag(item.children[j].tag)
         IN  IF HasText(item.children[i]) THEN item.children[i].text ELSE <<>>
    ELSE <<>>

\* a date that prefers published
date_of_published_first(item) ==
    IF text(item, T_published) # <<>> THEN text(item, T_published) ELSE text(item, T_pubDate)

\* text(item, 'pubDate') or text(item, 'published')
date_of(item) ==
    IF text(item, T_pubDate) # <<>> THEN text(item, T_pubDate) ELSE text(item, T_published)

\* the record parse_rss appends for one item
record_of(item) ==
    [slug  |-> slug_from(text(item, T_link), text(item, T_title)),
     title |-> text(item, T_title),
     link  |-> text(item, T_link),
     date  |-> date_of(item),
     html  |-> content_of(item)]

\* a variant of located that takes the items and the Atom entries together
located_merged(doc) == findall(doc, T_item) \o findall(doc, ATOM_NS \o T_entry)

\* the nodes parse_rss extracts records from: the items, or with none the Atom entries
located(doc) ==
    IF findall(doc, T_item) # <<>> THEN findall(doc, T_item)
    ELSE findall(doc, ATOM_NS \o T_entry)

Returned(out) == [ok |-> TRUE, out |-> out, exc |-> NoExc]
Raised(e)     == [ok |-> FALSE, out |-> <<>>, exc |-> e]

\* a variant of parse_rss that returns no records when it locates no nodes
parse_rss_lenient(doc) ==
    IF ~doc.wellformed THEN Raised(Exc("ParseError", "syntax error"))
    ELSE LET items == located(doc)
         IN  Returned([i \in 1..Len(items) |-> record_of(items[i])])

\* a variant of parse_rss that makes no record of an item without title
\* and link
parse_rss_skipping(doc) ==
    IF ~doc.wellformed THEN Raised(Exc("ParseError", "syntax error"))
    ELSE LET items == located(doc)
             kept  == SelectSeq(items, LAMBDA n : text(n, T_title) # <<>>
                                                    \/ text(n, T_link) # <<>>)
             out   == [i \in 1..Len(kept) |-> record_of(kept[i])]
         IN  IF items = <<>> THEN Raised(Exc("ValueError", "No items/entries found in feed"))
             ELSE IF out = <<>>
                  THEN Raised(Exc("ValueError", "Found feed items but couldn't extract post data"))
                  ELSE Returned(out)

parse_rss(doc) ==
    IF ~doc.wellformed THEN Raised(Exc("ParseError", "syntax error"))
    ELSE LET items == located(doc)
             out   == [i \in 1..Len(items) |-> record_of(items[i])]
         IN  IF items = <<>> THEN Raised(Exc("ValueError", "No items/entries found in feed"))
             ELSE IF out = <<>>
                  THEN Raised(Exc("ValueError", "Found feed items but couldn't extract post data"))
                  ELSE Returned(out)

---------------------------------------------------------------------------
(* The feed documents explored. *)

L_my_post == HostLong \o <<"/","p","/","m","y","-","p","o","s","t">>
X_hello   == <<"H","e","l","l","o"," ","W","o","r","l","d">>

\* a complete RSS item
ItemA == Node(T_item, <<El(T_title, X_hello), El(T_link, L_my_post),
                        El(T_pubDate, <<"d","1">>), El(T_encoded_ns, <<"<","p",">">>)>>)

\* a complete RSS item as a pretty-printed feed gives it: padded text, and a
\* description before the content:encoded element
ItemB == Node(T_item, <<El(T_title, <<"\n"," ","B"," ","b"," ">>),
                        El(T_link, <<" ","h","/","p","/","b","/">>),
                        El(T_pubDate, <<"d","2","\n">>),
                        El(T_description, <<"s","u","m">>),
                        El(T_encoded_ns, <<" ","<","b",">">>)>>)

\* an item with neither title nor link nor pubDate
ItemC == Node(T_item, <<El(T_published, <<"d","3">>), El(T_guid, <<"g">>)>>)

\* a complete RSS item whose pubDate is blank and whose first content child is empty
ItemD == Node(T_item, <<El(T_link, <<"/">>), El(T_title, <<"D">>), El(T_pubDate, <<" ">>),
                        El(T_published, <<"d","4">>), ElNone(T_description),
                        El(T_encoded_ns, <<"x">>)>>)

\* an Atom entry: its children are in the Atom namespace
EntryA == Node(ATOM_NS \o T_entry,
               <<El(ATOM_NS \o T_title, <<"E">>), El(ATOM_NS \o T_content, <<"<","e",">">>)>>)

\* an element named entry in no namespace
EntryPlain == Node(T_entry, <<El(T_title, <<"P">>)>>)

\* an element that is neither
Image == Node(T_image, <<El(T_title, <<"I">>), El(T_link, <<"h">>)>>)

NodeSet == {ItemA, ItemB, ItemC, ItemD, EntryA, EntryPlain, Image}

\* documents of several elements
StructDocs == {Doc(ns) : ns \in SeqsUpTo(NodeSet, MaxNodes)}

ChildSet ==
    {El(T_title, <<"A">>), El(T_title, <<" ","A"," ">>), ElNone(T_title),
     El(T_link, <<"/","p","/","a">>), El(T_link, <<"/">>),
     El(T_pubDate, <<"d","1">>), El(T_pubDate, <<" ">>),
     El(T_published, <<"d","2">>),
     El(T_description, <<"D">>), ElNone(T_description),
     El(T_encoded_ns, <<"E">>), El(T_Content, <<" ","C">>),
     El(T_guid, <<"g">>)}

\* documents of one item or entry with any children
ChildDocs ==
    {Doc(<<Node(t, cs)>>) : t \in {T_item, ATOM_NS \o T_entry},
                            cs \in SeqsUpTo(ChildSet, MaxChildren)}

Links ==
    {L_my_post, L_my_post \o <<"/">>, <<"/">>, <<"/","/">>, <<"m","y","-","p","o","s","t">>,
     <<"/","a","/","/","b","/">>, <<"h",":","/","/","e">>}

Titles == {X_hello, <<"A"," "," ","b","-","C">>, <<"x">>}

\* documents of one item with a title and perhaps a link
SlugDocs ==
    {Doc(<<Node(T_item, <<El(T_title, t), El(T_link, l)>>)>>) : t \in Titles, l \in Links}
      \cup {Doc(<<Node(T_item, <<El(T_title, t)>>)>>) : t \in Titles}
      \cup {Doc(<<Node(T_item, <<ElNone(T_link), El(T_title, t)>>)>>) : t \in Titles}

\* the responses parse_rss is explored on
ParseInputs == {Malformed} \cup StructDocs \cup ChildDocs \cup SlugDocs

\* the responses whole runs are explored on
MainPayloads == {Malformed, Doc(<<Image>>), Doc(<<ItemA, ItemB>>)}

---------------------------------------------------------------------------
(* The fetcher. *)

\* fetch_with_retries(url, max_retries=3, delay=1)
DEFAULT_MAX_RETRIES == 3
DEFAULT_DELAY == 1

\* a variant of in_range that admits one attempt more
in_range_inclusive(a, n) == a <= n

\* attempt in range(max_retries)
in_range(a, n) == a < n

\* an except clause that catches every exception
retry_catches_all(e) == TRUE

\* except (URLError, HTTPError)
retry_catches(e) == e.type \in {"URLError", "HTTPError"}

\* RECURSIVE power of two: 2 ** k
RECURSIVE Pow2(_)
Pow2(k) == IF k = 0 THEN 1 ELSE 2 * Pow2(k - 1)

\* a backoff that grows by delay with every attempt
backoff_linear(d, a) == d * a

\* the sleep before attempt a (0-based, a > 0): delay * (2 ** (a - 1))
backoff(d, a) == d * Pow2(a - 1)

\* a handler that keeps the first error of the call
record_error_first(le, e) == IF le = <<>> THEN <<e>> ELSE le

\* except (URLError, HTTPError) as e: last_error = e
record_error(le, e) == <<e>>

\* what fetch_with_retries raises when its loop ends
after_loop(le, u, n) ==
    IF le # <<>> THEN le[1] ELSE Exc("RuntimeError", "Failed to fetch url after n attempts")

\* one urlopen call and how it ended: "ok" with the response, "neterr" (a
\* URLError or HTTPError) or "other"
Request(u, v, result, payload) ==
    [url |-> u, variant |-> v, result |-> result, payload |-> payload]

\* a variant of errors_append that keeps the latest failure only
errors_append_latest(errs, u, e) == <<[url |-> u, reason |-> e.msg]>>

\* errors.append(f"{url}: {str(e)}")
errors_append(errs, u, e) == Append(errs, [url |-> u, reason |-> e.msg])

\* RuntimeError("All feed variants failed:\n" + "\n".join(errors))
all_failed(errs) ==
    [type |-> "RuntimeError", msg |-> "All feed variants failed:", detail |-> errs, code |-> 0]

---------------------------------------------------------------------------
(* main. *)

EXIT_SUCCESS == 0
EXIT_WARNING == 1
EXIT_ERROR   == 2

OldFile == [state |-> "old", content |-> <<>>]

\* except Exception: SystemExit is a BaseException and passes through
catches_Exception(e) == e.type # "SystemExit"

\* a variant of handler_status that exits with the warning's status
handler_status_collapsed(e) == IF catches_Exception(e) THEN EXIT_WARNING ELSE e.code

\* the exit status when main's try block raises e
handler_status(e) == IF catches_Exception(e) THEN EXIT_ERROR ELSE e.code

ErrorLine(e)  == [line |-> "Error processing feed:", arg |-> e, n |-> 0]
WarningLine   == [line |-> "Warning: No posts found in feed", arg |-> NoExc, n |-> 0]
FoundLine(n)  == [line |-> "Found n posts in feed", arg |-> NoExc, n |-> n]

\* sys.stderr when main's try block raises e
handler_stderr(err, e) == IF catches_Exception(e) THEN Append(err, ErrorLine(e)) ELSE err

---------------------------------------------------------------------------
(* Initial states. *)

\* a process that has parsed its arguments and called nothing yet
InitRun(urls) ==
    /\ pc = "main"
    /\ feed_url \in urls
    /\ out_file = OldFile
    /\ base_url = <<>>
    /\ variant = 0
    /\ url = <<>>
    /\ errors = <<>>
    /\ max_retries = 0
    /\ delay = 0
    /\ attempt = 0
    /\ last_error = <<>>
    /\ sleeps = <<>>
    /\ requests = <<>>
    /\ raised = NoExc
    /\ raw = Malformed
    /\ posts = <<>>
    /\ exc = NoExc
    /\ status = -1
    /\ stderr = <<>>

Init == InitRun(MainFeedURLs)

InitNormalize == InitRun(URLInputs)

\* a direct call of fetch_with_retries(url, max_retries, delay)
InitRetries ==
    /\ pc = "call"
    /\ feed_url = <<>>
    /\ out_file = OldFile
    /\ base_url = <<>>
    /\ variant = 0
    /\ url = HostShort \o S_feed
    /\ errors = <<>>
    /\ max_retries \in 0..MaxRetriesArg
    /\ delay \in 1..MaxDelay
    /\ attempt = 0
    /\ last_error = <<>>
    /\ sleeps = <<>>
    /\ requests = <<>>
    /\ raised = NoExc
    /\ raw = Malformed
    /\ posts = <<>>
    /\ exc = NoExc
    /\ status = -1
    /\ stderr = <<>>

\* a run whose first request returned a response
InitParse ==
    /\ pc = "parse"
    /\ feed_url = HostShort
    /\ out_file = OldFile
    /\ base_url = HostShort
    /\ variant = 1
    /\ url = HostShort \o S_feed
    /\ errors = <<>>
    /\ max_retries = DEFAULT_MAX_RETRIES
    /\ delay = DEFAULT_DELAY
    /\ attempt = 0
    /\ last_error = <<>>
    /\ sleeps = <<>>
    /\ raw \in ParseInputs
    /\ requests = <<Request(url, 1, "ok", raw)>>
    /\ raised = NoExc
    /\ posts = <<>>
    /\ exc = NoExc
    /\ status = -1
    /\ stderr = <<>>

---------------------------------------------------------------------------
(* Actions. *)

\* main calls fetch_feed, which normalizes the URL and calls
\* fetch_with_retries on the first variant
Start ==
    /\ pc = "main"
    /\ base_url' = normalize_feed_url(feed_url)
    /\ errors' = <<>>
    /\ variant' = 1
    /\ url' = Format(FEED_VARIANTS[1], base_url')
    /\ max_retries' = DEFAULT_MAX_RETRIES
    /\ delay' = DEFAULT_DELAY
    /\ attempt' = 0
    /\ last_error' = <<>>
    /\ pc' = "fetch"
    /\ UNCHANGED <<feed_url, out_file, sleeps, requests, raised, raw, posts, exc, status,
                   stderr>>

\* fetch_with_retries is entered: with max_retries = 0 the loop body never runs
CallFetch ==
    /\ pc = "call"
    /\ IF in_range(0, max_retries)
       THEN /\ pc' = "fetch"
            /\ exc' = exc
       ELSE /\ pc' = "returned"
            /\ exc' = after_loop(last_error, url, max_retries)
    /\ UNCHANGED <<feed_url, out_file, base_url, variant, url, errors, max_retries, delay,
                   attempt, last_error, sleeps, requests, raised, raw, posts, status, stderr>>

\* a variant of fetch_returned in which fetch_feed does not return but goes
\* on to the next variant
fetch_returned_goes_on(payload) ==
    /\ raw' = payload
    /\ IF variant = 0 \/ variant = Len(FEED_VARIANTS)
       THEN /\ pc' = IF variant = 0 THEN "returned" ELSE "parse"
            /\ UNCHANGED <<variant, url, attempt, last_error>>
       ELSE /\ pc' = pc
            /\ variant' = variant + 1
            /\ url' = Format(FEED_VARIANTS[variant + 1], base_url)
            /\ attempt' = 0
            /\ last_error' = <<>>
    /\ UNCHANGED <<errors, exc, status, stderr>>

\* fetch_with_retries returned payload: a direct call is over; fetch_feed
\* returns it to main
fetch_returned(payload) ==
    /\ raw' = payload
    /\ pc' = IF variant = 0 THEN "returned" ELSE "parse"
    /\ UNCHANGED <<variant, url, errors, attempt, last_error, exc, status, stderr>>

\* urlopen and r.read() succeed
AttemptReturns ==
    /\ pc = "fetch"
    /\ in_range(attempt, max_retries)
    /\ \E payload \in MainPayloads :
          /\ requests' = Append(requests, Request(url, variant, "ok", payload))
          /\ raised' = NoExc
          /\ fetch_returned(payload)
    /\ UNCHANGED <<feed_url, out_file, base_url, max_retries, delay, sleeps, posts>>

\* fetch_with_retries raised e with last_error = le: a direct call is over;
\* fetch_feed records the failure and goes on to the next variant, or with
\* none left raises the aggregate error, which main reports
fetch_raised(e, le) ==
    IF variant = 0
    THEN /\ pc' = "returned"
         /\ exc' = e
         /\ last_error' = le
         /\ UNCHANGED <<variant, url, errors, attempt, status, stderr>>
    ELSE IF variant < Len(FEED_VARIANTS)
    THEN /\ errors' = errors_append(errors, url, e)
         /\ variant' = variant + 1
         /\ url' = Format(FEED_VARIANTS[variant + 1], base_url)
         /\ attempt' = 0
         /\ last_error' = <<>>
         /\ UNCHANGED <<pc, exc, status, stderr>>
    ELSE /\ errors' = errors_append(errors, url, e)
         /\ exc' = all_failed(errors')
         /\ status' = handler_status(exc')
         /\ stderr' = handler_stderr(stderr, exc')
         /\ pc' = "exit"
         /\ last_error' = le
         /\ UNCHANGED <<variant, url, attempt>>

ErrorKind(e) == IF e \in NetErrors THEN "neterr" ELSE "other"

\* urlopen or r.read() raises e
AttemptRaises ==
    /\ pc = "fetch"
    /\ in_range(attempt, max_retries)
    /\ \E e \in NetErrors \cup OtherErrors :
          /\ requests' = Append(requests, Request(url, variant, ErrorKind(e), Malformed))
          /\ raised' = e
          /\ IF retry_catches(e) /\ in_range(attempt + 1, max_retries)
             THEN /\ last_error' = record_error(last_error, e)
                  /\ attempt' = attempt + 1
                  /\ sleeps' = Append(sleeps, backoff(delay, attempt + 1))
                  /\ UNCHANGED <<pc, variant, url, errors, exc, status, stderr>>
             ELSE /\ sleeps' = sleeps
                  /\ IF retry_catches(e)
                     THEN fetch_raised(after_loop(record_error(last_error, e), url,
                                                  max_retries),
                                       record_error(last_error, e))
                     ELSE fetch_raised(e, last_error)
    /\ UNCHANGED <<feed_url, out_file, base_url, max_retries, delay, raw, posts>>

\* Parse with the output file opened before the payload is parsed
Parse_opening_first ==
    /\ pc = "parse"
    /\ out_file' = [state |-> "partial", content |-> <<>>]
    /\ LET r == parse_rss(raw)
       IN  IF ~r.ok
           THEN /\ posts' = posts
                /\ exc' = r.exc
                /\ status' = handler_status(r.exc)
                /\ stderr' = handler_stderr(stderr, r.exc)
                /\ pc' = "exit"
           ELSE /\ posts' = r.out
                /\ stderr' = Append(stderr, FoundLine(Len(r.out)))
                /\ pc' = "write"
                /\ UNCHANGED <<exc, status>>
    /\ UNCHANGED <<feed_url, base_url, variant, url, errors, max_retries, delay,
                   attempt, last_error, sleeps, requests, raised, raw>>

\* Parse with a payload that does not parse treated like a failed fetch:
\* the next candidate is tried
Parse_retrying ==
    /\ pc = "parse"
    /\ LET r == parse_rss(raw)
       IN  IF ~r.ok /\ variant < Len(FEED_VARIANTS)
           THEN /\ errors' = errors_append(errors, url, r.exc)
                /\ variant' = variant + 1
                /\ url' = Format(FEED_VARIANTS[variant + 1], base_url)
                /\ attempt' = 0
                /\ pc' = "fetch"
                /\ UNCHANGED <<posts, exc, status, stderr>>
           ELSE IF ~r.ok
           THEN /\ posts' = posts
                /\ exc' = r.exc
                /\ status' = handler_status(r.exc)
                /\ stderr' = handler_stderr(stderr, r.exc)
                /\ pc' = "exit"
                /\ UNCHANGED <<errors, variant, url, attempt>>
           ELSE /\ posts' = r.out
                /\ stderr' = Append(stderr, FoundLine(Len(r.out)))
                /\ pc' = "write"
                /\ UNCHANGED <<exc, status, errors, variant, url, attempt>>
    /\ UNCHANGED <<feed_url, out_file, base_url, max_retries, delay,
                   last_error, sleeps, requests, raised, raw>>

\* main: posts = parse_rss(raw), the check for no posts, the count printed
Parse ==
    /\ pc = "parse"
    /\ LET r == parse_rss(raw)
       IN  IF ~r.ok
           THEN /\ posts' = posts
                /\ exc' = r.exc
                /\ status' = handler_status(r.exc)
                /\ stderr' = handler_stderr(stderr, r.exc)
                /\ pc' = "exit"
           ELSE IF r.out = <<>>
           THEN /\ posts' = r.out
                /\ exc' = SystemExit(EXIT_WARNING)
                /\ status' = handler_status(exc')
                /\ stderr' = handler_stderr(Append(stderr, WarningLine), exc')
                /\ pc' = "exit"
           ELSE /\ posts' = r.out
                /\ stderr' = Append(stderr, FoundLine(Len(r.out)))
                /\ pc' = "write"
                /\ UNCHANGED <<exc, status>>
    /\ UNCHANGED <<feed_url, out_file, base_url, variant, url, errors, max_retries, delay,
                   attempt, last_error, sleeps, requests, raised, raw>>

\* main: open(args.out, 'w') and json.dump; open truncates the file, and
\* either call can raise OSError
WriteFile ==
    /\ pc = "write"
    /\ \E outcome \in {"written", "open fails", "dump fails"} :
          IF outcome = "written"
          THEN /\ out_file' = [state |-> "written", content |-> posts]
               /\ status' = EXIT_SUCCESS
               /\ UNCHANGED <<exc, stderr>>
          ELSE /\ out_file' = IF outcome = "open fails" THEN out_file
                              ELSE [state |-> "partial", content |-> <<>>]
               /\ exc' = Exc("OSError", outcome)
               /\ status' = handler_status(exc')
               /\ stderr' = handler_stderr(stderr, exc')
    /\ pc' = "exit"
    /\ UNCHANGED <<feed_url, base_url, variant, url, errors, max_retries, delay, attempt,
                   last_error, sleeps, requests, raised, raw, posts>>

---------------------------------------------------------------------------
(* Specifications. *)

Next == Start \/ AttemptReturns \/ AttemptRaises \/ Parse \/ WriteFile

\* a whole run of main
Spec == Init /\ [][Next]_vars

\* the resolver on many feed URLs
SpecNormalize == InitNormalize /\ [][Start]_vars

NextRetries == CallFetch \/ AttemptReturns \/ AttemptRaises

\* fetch_with_retries called on its own
SpecRetries == InitRetries /\ [][NextRetries]_vars

NextParse == Parse \/ WriteFile

\* main from the response on, on many documents
SpecParse == InitParse /\ [][NextParse]_vars

---------------------------------------------------------------------------
(* What the claims speak of. *)

\* the requests made to candidate v
RequestsTo(v) == {i \in 1..Len(requests) : requests[i].variant = v}

\* candidate v's fetch has failed: a request to it raised something other
\* than a network error, or max_retries requests to it raised network errors
CandidateFailed(v) ==
    \/ \E i \in RequestsTo(v) : requests[i].result = "other"
    \/ /\ Cardinality(RequestsTo(v)) = max_retries
       /\ \A i \in RequestsTo(v) : requests[i].result = "neterr"

\* the four candidate URLs of a base URL, as the specification lists them
FourCandidates(base) ==
    <<base \o <<"/","f","e","e","d">>,
      base \o <<"/","f","e","e","d","/">>,
      base \o <<"/","l","a","t","e","s","t","/","f","e","e","d">>,
      base \o <<"/","r","s","s">>>>

\* the URLs requested, in the order of their first request
RECURSIVE Distinct(_)
Distinct(us) ==
    IF us = <<>> THEN <<>>
    ELSE LET rest == Distinct(SubSeq(us, 1, Len(us) - 1))
             u    == us[Len(us)]
         IN  IF \E i \in 1..Len(rest) : rest[i] = u THEN rest ELSE Append(rest, u)

RequestedURLs == Distinct([i \in 1..Len(requests) |-> requests[i].url])

IsPrefix(s, t) == Len(s) <= Len(t) /\ SubSeq(t, 1, Len(s)) = s

\* fetch_feed ended with its aggregate error
AllFailed == pc = "exit" /\ exc.type = "RuntimeError"

---------------------------------------------------------------------------
(* C1: fetch_feed uses the payload of exactly one candidate, the first in  *)
(* list order whose fetch succeeds: the first request goes to candidate 1, *)
(* a request to candidate i+1 follows only requests to candidate i, which  *)
(* has then failed, nothing is requested after a request has returned a    *)
(* payload, and the payload main goes on with is that request's.           *)
C1_FirstSuccessWins ==
    /\ requests # <<>> => requests[1].variant = 1
    /\ \A i \in 1..Len(requests) :
          requests[i].result = "ok" =>
             /\ i = Len(requests)
             /\ raw = requests[i].payload
             /\ pc \in {"parse", "write", "exit"}
    /\ \A i \in 1..(Len(requests) - 1) :
          \/ requests[i + 1].variant = requests[i].variant
          \/ /\ requests[i + 1].variant = requests[i].variant + 1
             /\ CandidateFailed(requests[i].variant)
    /\ pc \in {"parse", "write"} => requests # <<>> /\ requests[Len(requests)].result = "ok"

\* C1, reached: the third candidate's payload is used after the first two have failed
C1_Witness ==
    /\ pc = "parse"
    /\ requests[Len(requests)].variant = 3
    /\ raw = Doc(<<ItemA, ItemB>>)

---------------------------------------------------------------------------
(* C3: when all four candidates fail, fetch_feed raises one aggregate      *)
(* error that lists the four candidate URLs in candidate order, each with  *)
(* the reason its fetch failed: whenever a candidate fails, the line       *)
(* recorded pairs the URL just requested with the message of the exception *)
(* that request raised, and the aggregate error carries all the lines.     *)
C3_Aggregate ==
    (pc = "exit" /\ requests # <<>> /\ requests[Len(requests)].result # "ok") =>
        /\ exc.type = "RuntimeError"
        /\ exc.msg = "All feed variants failed:"
        /\ exc.detail = errors
        /\ Len(errors) = 4
        /\ \A i \in 1..4 : errors[i].url = FourCandidates(base_url)[i]
        /\ stderr = <<ErrorLine(exc)>>

C3_Recorded ==
    /\ Len(errors') >= Len(errors) => SubSeq(errors', 1, Len(errors)) = errors
    /\ Len(errors') > Len(errors) =>
          /\ Len(errors') = Len(errors) + 1
          /\ errors'[Len(errors')].url = requests'[Len(requests')].url
          /\ errors'[Len(errors')].reason = raised'.msg
          /\ requests'[Len(requests')].result # "ok"
    /\ (Len(requests') > Len(requests) /\ CandidateFailed(variant)')
          => Len(errors') = Len(errors) + 1

\* C3: the aggregate error lists the four candidates in order, each with the
\* reason recorded when it failed
C3_AggregateError == [] C3_Aggregate /\ [][C3_Recorded]_vars

\* C3, reached: all four failed, for different reasons
C3_Witness ==
    /\ AllFailed
    /\ Len(exc.detail) = 4
    /\ exc.detail[1].reason = "The read operation timed out"
    /\ exc.detail[2].reason = "HTTP Error 404: Not Found"
    /\ exc.detail[4].reason = "<urlopen error timed out>"

---------------------------------------------------------------------------
(* C5: the URLs fetch_feed requests are base+/feed, base+/feed/,           *)
(* base+/latest/feed, base+/rss, in this order: the URLs requested so far  *)
(* are the first of these four, and all four when every candidate failed.  *)
C5_FourCandidatesInOrder ==
    /\ IsPrefix(RequestedURLs, FourCandidates(base_url))
    /\ AllFailed => RequestedURLs = FourCandidates(base_url)
    /\ pc = "fetch" => url = FourCandidates(base_url)[Len(errors) + 1]

\* C5, reached: all four candidates of the base URL h/latest were requested
C5_Witness ==
    /\ AllFailed
    /\ Len(RequestedURLs) = 4
    /\ base_url = <<"h","/","l","a","t","e","s","t">>

---------------------------------------------------------------------------
(* C2: a call fetch_with_retries(url, max_retries) makes at most           *)
(* max_retries requests; a request that returns a payload is the last one, *)
(* the call returns that payload, and every request before it failed with  *)
(* a network error; a call that only met network errors ends only when     *)
(* max_retries requests have been made.                                    *)
C2_RetryBudget ==
    /\ Len(requests) <= max_retries
    /\ \A i \in 1..Len(requests) :
          requests[i].result = "ok" =>
             /\ i = Len(requests)
             /\ pc = "returned"
             /\ exc = NoExc
             /\ raw = requests[i].payload
             /\ \A j \in 1..(i - 1) : requests[j].result = "neterr"
    /\ (pc = "returned" /\ \A i \in 1..Len(requests) : requests[i].result = "neterr")
          => Len(requests) = max_retries /\ exc # NoExc
    /\ (pc = "fetch" /\ \A i \in 1..Len(requests) : requests[i].result = "neterr")
          => Len(requests) < max_retries

\* C2, reached: max_retries = 3: two network errors, then a payload, and the call is over
C2_Witness ==
    /\ max_retries = 3
    /\ pc = "returned"
    /\ Len(requests) = 3
    /\ requests[1].result = "neterr"
    /\ requests[2].result = "neterr"
    /\ requests[3].result = "ok"
    /\ raw = Doc(<<ItemA, ItemB>>)

---------------------------------------------------------------------------
(* C4: normalize_feed_url removes from a feed URL the known suffix it ends *)
(* in, once, and leaves a URL that ends in none of them as it is.          *)
KnownSuffixes ==
    {<<"/","f","e","e","d">>, <<"/","f","e","e","d","/">>,
     <<"/","l","a","t","e","s","t","/","f","e","e","d">>, <<"/","r","s","s">>}

\* C4: the known suffix a feed URL ends in is removed once; a URL ending in
\* none is returned as it is
C4_SuffixRemovedOnce ==
    pc = "fetch" =>
        /\ \A sfx \in KnownSuffixes : EndsWith(feed_url, sfx) => feed_url = base_url \o sfx
        /\ (\A sfx \in KnownSuffixes : ~EndsWith(feed_url, sfx)) => base_url = feed_url

---------------------------------------------------------------------------
(* What the claims about parse_rss speak of. *)

\* main is past its call of parse_rss
ParseDone == pc \in {"write", "exit"}

\* ... which returned
ParseSucceeded == pc = "write" \/ (pc = "exit" /\ exc.type \in {"None", "OSError"})

\* the item elements and the Atom entry elements of the response, in document order
ItemNodes  == SelectSeq(raw.nodes, LAMBDA n : n.tag = <<"i","t","e","m">>)
EntryNodes ==
    SelectSeq(raw.nodes,
              LAMBDA n : n.tag = <<"{","h","t","t","p",":","/","/","w","w","w",".","w","3",
                                   ".","o","r","g","/","2","0","0","5","/","A","t","o","m",
                                   "}","e","n","t","r","y">>)

\* the tags of the explored children that are content:encoded-like
ContentLikeTags == {T_encoded_ns, T_description, T_Content, ATOM_NS \o T_content}

ChildrenOf(n, tags) == {k \in 1..Len(n.children) : n.children[k].tag \in tags}

\* the first child of n with a tag of tags is child k
FirstChild(n, tags, k) == k \in ChildrenOf(n, tags) /\ \A j \in ChildrenOf(n, tags) : k <= j

\* n has a child with a tag of tags, and every such child has non-empty text
HasValue(n, tags) ==
    /\ ChildrenOf(n, tags) # {}
    /\ \A k \in ChildrenOf(n, tags) : n.children[k].has_text /\ n.children[k].text # <<>>

\* an item with title, link, pubDate and a content:encoded-like child
CompleteItem(n) ==
    /\ HasValue(n, {T_title})
    /\ HasValue(n, {T_link})
    /\ HasValue(n, {T_pubDate})
    /\ \E k \in ChildrenOf(n, ContentLikeTags) :
          n.children[k].has_text /\ n.children[k].text # <<>>

\* a well-formed RSS document with N >= 1 items, each complete
WellFormedRSS ==
    /\ raw.wellformed
    /\ ItemNodes # <<>>
    /\ \A i \in 1..Len(ItemNodes) : CompleteItem(ItemNodes[i])

\* v is the non-empty text of a child of n with a tag of tags
IsValueOf(v, n, tags) ==
    v # <<>> /\ \E k \in ChildrenOf(n, tags) : n.children[k].has_text /\ n.children[k].text = v

\* v is the text of the first child of n with a tag of tags, stripped
IsStrippedFirst(v, n, tags) ==
    \E k \in 1..Len(n.children) :
        FirstChild(n, tags, k) /\ v = Strip(n.children[k].text)

\* v is what the published children of n give: the text of the first, stripped
IsPublished(v, n) ==
    IF ChildrenOf(n, {T_published}) = {} THEN v = <<>>
    ELSE IsStrippedFirst(v, n, {T_published})

---------------------------------------------------------------------------
(* C6, as the specification states it: a well-formed RSS document with N   *)
(* complete items yields N records, in document order, whose title, link,  *)
(* date and html equal the item's non-empty title, link, pubDate and       *)
(* content values.                                                         *)
C6_FieldsEqual ==
    (ParseDone /\ WellFormedRSS) =>
        /\ ParseSucceeded
        /\ Len(posts) = Len(ItemNodes)
        /\ \A i \in 1..Len(posts) :
              /\ IsValueOf(posts[i].title, ItemNodes[i], {T_title})
              /\ IsValueOf(posts[i].link, ItemNodes[i], {T_link})
              /\ IsValueOf(posts[i].date, ItemNodes[i], {T_pubDate})
              /\ IsValueOf(posts[i].html, ItemNodes[i], ContentLikeTags)

(* C6, amended: such a document yields N records, in document order; title *)
(* and link are the text of the item's first title and link child with the *)
(* white space around it stripped, date is the stripped text of the first  *)
(* pubDate child or, when that is blank, of the first published child, and *)
(* html is the text, as it is, of the first content child in document      *)
(* order (empty when that child has no text).                              *)
C6_FieldsStripped ==
    (ParseDone /\ WellFormedRSS) =>
        /\ ParseSucceeded
        /\ Len(posts) = Len(ItemNodes)
        /\ \A i \in 1..Len(posts) :
              LET n == ItemNodes[i]
              IN  /\ IsStrippedFirst(posts[i].title, n, {T_title})
                  /\ IsStrippedFirst(posts[i].link, n, {T_link})
                  /\ \/ posts[i].date # <<>> /\ IsStrippedFirst(posts[i].date, n, {T_pubDate})
                     \/ IsStrippedFirst(<<>>, n, {T_pubDate}) /\ IsPublished(posts[i].date, n)
                  /\ \E k \in 1..Len(n.children) :
                        /\ FirstChild(n, ContentLikeTags, k)
                        /\ posts[i].html = IF n.children[k].has_text
                                           THEN n.children[k].text ELSE <<>>

\* C6, reached: two complete items, the second with padded text, gave two records
C6_Witness ==
    /\ pc = "write"
    /\ raw = Doc(<<ItemA, ItemB>>)
    /\ Len(posts) = 2
    /\ posts[1].title = X_hello
    /\ posts[2].title = <<"B"," ","b">>
    /\ posts[2].html = <<"s","u","m">>

---------------------------------------------------------------------------
(* C7: a document with no item but N >= 1 Atom entries yields N records,   *)
(* one per entry; a document with at least one item yields one record per  *)
(* item and none for its Atom entries.                                     *)
IsRecordOf(r, n) ==
    r.html = <<>> \/ \E k \in 1..Len(n.children) : n.children[k].text = r.html

\* C7: one record per Atom entry when there is no item, else one per item
C7_AtomFallback ==
    (ParseDone /\ raw.wellformed) =>
        /\ (ItemNodes = <<>> /\ EntryNodes # <<>>) =>
              /\ ParseSucceeded
              /\ Len(posts) = Len(EntryNodes)
              /\ \A i \in 1..Len(posts) : IsRecordOf(posts[i], EntryNodes[i])
        /\ ItemNodes # <<>> =>
              /\ ParseSucceeded
              /\ Len(posts) = Len(ItemNodes)
              /\ \A i \in 1..Len(posts) : IsRecordOf(posts[i], ItemNodes[i])

\* C7, reached: two Atom entries and no item gave two records
C7_Witness ==
    /\ pc = "write"
    /\ ItemNodes = <<>>
    /\ Len(EntryNodes) = 2
    /\ Len(posts) = 2
    /\ posts[1].html = <<"<","e",">">>

---------------------------------------------------------------------------
(* C8: a document with neither item nor Atom entry elements makes          *)
(* parse_rss fail with the "no items" error, and no record is returned.    *)
C8_NoItemsError ==
    (ParseDone /\ raw.wellformed /\ ItemNodes = <<>> /\ EntryNodes = <<>>) =>
        /\ pc = "exit"
        /\ exc = Exc("ValueError", "No items/entries found in feed")
        /\ posts = <<>>

\* C8, reached: a document whose only elements are an entry in no namespace and an image
C8_Witness ==
    /\ pc = "exit"
    /\ raw = Doc(<<EntryPlain, Image>>)
    /\ exc.type = "ValueError"
    /\ posts = <<>>

---------------------------------------------------------------------------
(* C9, as the specification states it: the slug of a record is the last    *)
(* non-empty path segment of its link when the link is not empty, and      *)
(* otherwise its title in lower case with every space replaced by a hyphen.*)

\* sl is the last non-empty piece of link between slashes
IsLastSegment(sl, link) ==
    /\ sl # <<>>
    /\ \A k \in 1..Len(sl) : sl[k] # "/"
    /\ \E k \in 0..(Len(link) - Len(sl)) :
          /\ SubSeq(link, k + 1, k + Len(sl)) = sl
          /\ k = 0 \/ link[k] = "/"
          /\ \A j \in (k + Len(sl) + 1)..Len(link) : link[j] = "/"

\* sl is title in lower case with hyphens for spaces
IsTitleSlug(sl, title) ==
    /\ Len(sl) = Len(title)
    /\ \A k \in 1..Len(sl) : sl[k] = IF title[k] = " " THEN "-" ELSE LowerChar(title[k])

\* C9, as stated: the last segment of a non-empty link, else the title's slug
C9_SlugOfLinkOrTitle ==
    \A i \in 1..Len(posts) :
        IF posts[i].link # <<>>
        THEN IsLastSegment(posts[i].slug, posts[i].link)
        ELSE IsTitleSlug(posts[i].slug, posts[i].title)

(* C9, amended: the slug of a record is the last non-empty path segment of *)
(* its link when the link has one, and otherwise (the link is empty or     *)
(* made of slashes only) its title in lower case with every space replaced *)
(* by a hyphen.                                                            *)
C9_SlugOfSegmentOrTitle ==
    \A i \in 1..Len(posts) :
        IF \E k \in 1..Len(posts[i].link) : posts[i].link[k] # "/"
        THEN IsLastSegment(posts[i].slug, posts[i].link)
        ELSE IsTitleSlug(posts[i].slug, posts[i].title)

\* C9, reached: the link https://example.substack.com/p/my-post gave the slug my-post
C9_Witness ==
    /\ Len(posts) = 1
    /\ posts[1].link = HostLong \o <<"/","p","/","m","y","-","p","o","s","t">>
    /\ posts[1].slug = <<"m","y","-","p","o","s","t">>
    /\ posts[1].title = X_hello

---------------------------------------------------------------------------
(* C10: a run of main ends with status 0 and the file written, or with the *)
(* warning and status 1, or with the error printed and status 2; a fetch   *)
(* or parse error ends it with status 2; and the SystemExit of the warning *)
(* passes main's handler with its status 1.                                *)
FetchFailed == pc = "exit" /\ requests # <<>> /\ requests[Len(requests)].result # "ok"

ParseFailed ==
    /\ pc = "exit"
    /\ requests # <<>>
    /\ requests[Len(requests)].result = "ok"
    /\ ~raw.wellformed \/ (ItemNodes = <<>> /\ EntryNodes = <<>>)

Printed(line) == \E k \in 1..Len(stderr) : stderr[k].line = line

\* C10: three outcomes with the statuses 0, 1 and 2; fetch and parse errors
\* give 2; the warning's SystemExit keeps its status 1
C10_ThreeOutcomes ==
    /\ pc # "exit" => status = -1
    /\ pc = "exit" =>
          \/ /\ status = 0
             /\ posts # <<>>
             /\ out_file = [state |-> "written", content |-> posts]
             /\ ~Printed("Error processing feed:")
             /\ ~Printed("Warning: No posts found in feed")
          \/ /\ status = 1
             /\ posts = <<>>
             /\ out_file = OldFile
             /\ stderr = <<WarningLine>>
          \/ /\ status = 2
             /\ out_file.state # "written"
             /\ stderr # <<>>
             /\ stderr[Len(stderr)] = ErrorLine(exc)
             /\ exc.type # "None"
    /\ (FetchFailed \/ ParseFailed) => status = 2
    /\ handler_status(SystemExit(1)) = 1

\* C10, reached: the second candidate's response had no items: status 2
C10_Witness ==
    /\ pc = "exit"
    /\ status = 2
    /\ requests[Len(requests)].variant = 2
    /\ ParseFailed
    /\ exc.msg = "No items/entries found in feed"

---------------------------------------------------------------------------
(* C11: the output file is opened only after fetch and parse succeeded. *)

FileTouched == out_file # OldFile

EmptyWarning == status = EXIT_WARNING

\* C11: the output file differs from what it was before the run only when
\* the last request returned a payload, parse_rss returned at least one
\* record from it and the run is past the write; in every state of a run
\* that failed in the fetch, failed in the parse or ended in the
\* empty-result warning the file is what it was before the run.
C11_FileState ==
    /\ FileTouched =>
          /\ pc = "exit"
          /\ requests # <<>>
          /\ requests[Len(requests)].result = "ok"
          /\ raw.wellformed
          /\ posts # <<>>
          /\ ~ FetchFailed
          /\ ~ ParseFailed
          /\ ~ EmptyWarning
    /\ out_file.state = "written" => out_file.content = posts /\ status = EXIT_SUCCESS
    /\ FetchFailed \/ ParseFailed \/ EmptyWarning => out_file = OldFile

\* C11: the file changes in one step only, the write that follows a
\* successful parse.
C11_AllOrNothing ==
    /\ [] C11_FileState
    /\ [][out_file' # out_file => pc = "write" /\ pc' = "exit" /\ posts # <<>>]_vars

\* C11 witness: both sides happen, a run that wrote its records after two
\* failed candidates (checked as reachable together with its failed twin
\* below).
C11_Witness ==
    /\ pc = "exit"
    /\ out_file.state = "written"
    /\ Len(out_file.content) = 2
    /\ Len(errors) = 2

\* C11 witness of the failure side: a run that ended in a parse failure
\* with the file as it was.
C11_WitnessFailed == pc = "exit" /\ ParseFailed /\ out_file = OldFile

---------------------------------------------------------------------------
(* C12: exponential backoff between the attempts of one call. *)

\* C12: in a call of fetch_with_retries the first wait is delay and every
\* later wait is twice the one before (delay * 2^(a-1) after the a-th
\* failed attempt); wait a follows a failed attempt a < max_retries; there
\* is no wait before the first attempt; and a call that made attempts made
\* one wait fewer than attempts (while the call is between attempts the
\* wait for the coming attempt is already made).
C12_Backoff ==
    /\ \A a \in 1..Len(sleeps) :
          /\ a = 1 => sleeps[a] = delay
          /\ a > 1 => sleeps[a] = 2 * sleeps[a - 1]
          /\ a < max_retries
          /\ a <= Len(requests)
          /\ requests[a].result = "neterr"
    /\ requests = <<>> => sleeps = <<>>
    /\ pc = "fetch" => Len(sleeps) = Len(requests)
    /\ pc = "returned" /\ requests # <<>> => Len(sleeps) = Len(requests) - 1

\* C12 witness: a call with delay 2 that made four attempts returned after
\* waiting 2, 4 and 8.
C12_Witness ==
    /\ pc = "returned"
    /\ delay = 2
    /\ Len(requests) = 4
    /\ sleeps = <<2, 4, 8>>

---------------------------------------------------------------------------
(* C13: a candidate whose attempts all failed with network errors fails   *)
(* with the error of its last attempt.                                    *)

\* the step makes the last of the max_retries attempts on the current
\* candidate, and like all before it it fails with a network error
ExhaustingAttempt ==
    /\ Len(requests') = Len(requests) + 1
    /\ LET mine == {i \in 1..Len(requests') : requests'[i].variant = variant}
       IN  /\ Cardinality(mine) = max_retries
           /\ \A i \in mine : requests'[i].result = "neterr"

\* the reason recorded for the candidate is the error raised by the
\* attempt of this step
C13_Recorded ==
    ExhaustingAttempt =>
        /\ errors' = Append(errors, [url |-> url, reason |-> raised'.msg])
        /\ AllFailed' => exc'.detail[Len(exc'.detail)].reason = raised'.msg

\* C13: when the max_retries-th attempt on a candidate fails with a network
\* error like those before it, the failure fetch_feed records for the
\* candidate is that attempt's error; between attempts the error kept for
\* the call is the one of the attempt just made.
C13_LastError ==
    /\ [](pc = "fetch" /\ attempt > 0 => last_error = <<raised>>)
    /\ [][C13_Recorded]_vars

\* C13 witness: the first candidate used up its three attempts on network
\* errors, the last an URLError, which is the reason recorded; the second
\* did the same, ending in an HTTPError.
C13_Witness ==
    /\ Len(requests) = 6
    /\ \A i \in 1..6 : requests[i].result = "neterr"
    /\ Len(errors) = 2
    /\ errors[1].reason = "<urlopen error timed out>"
    /\ errors[2].reason = "HTTP Error 404: Not Found"
    /\ raised.type = "HTTPError"

---------------------------------------------------------------------------
(* C14: a payload that does not parse ends the run; nothing is requested  *)
(* after it.                                                              *)

\* the payload main is about to parse is malformed or has no item and no
\* Atom entry
UnparsablePayload == pc = "parse" /\ (~raw.wellformed \/ (ItemNodes = <<>> /\ EntryNodes = <<>>))

\* a step from such a payload ends the run with the hard-failure status and
\* the error printed, and makes no request
C14_ParseStep ==
    UnparsablePayload =>
        /\ pc' = "exit"
        /\ status' = EXIT_ERROR
        /\ exc'.type \in {"ParseError", "ValueError"}
        /\ stderr' = Append(stderr, ErrorLine(exc'))
        /\ requests' = requests
        /\ variant' = variant

\* C14: once a candidate has returned a payload, a parse failure ends the
\* run with status 2 and no further request is made, to that candidate or
\* a later one: a step from an unparsable payload goes to the exit, no step
\* after a returned payload adds a request, and a run that failed in the
\* parse has the hard-failure status.
C14_ParseNotRetried ==
    /\ [](ParseFailed => status = EXIT_ERROR /\ requests[Len(requests)].payload = raw)
    /\ [][C14_ParseStep]_vars
    /\ [][(requests # <<>> /\ requests[Len(requests)].result = "ok") => requests' = requests]_vars

\* C14 witness: the first candidate failed, the second returned a feed
\* without items; the run ended with status 2 after four requests, two
\* candidates untried.
C14_Witness ==
    /\ ParseFailed
    /\ raw.wellformed
    /\ status = EXIT_ERROR
    /\ variant = 2
    /\ Len(requests) = 4
    /\ exc.msg = "No items/entries found in feed"

---------------------------------------------------------------------------
(* C15: every run ends, in DONE or in FAILED, after at most 12 requests.  *)

\* the terminal states
Done   == pc = "exit" /\ status = EXIT_SUCCESS /\ posts # <<>> /\ out_file.state = "written"
Failed == pc = "exit" /\ status = EXIT_ERROR /\ Printed("Error processing feed:")

\* a run whose file system refused the write
WriteFailed == pc = "exit" /\ exc.type = "OSError"

C15_Terminal ==
    /\ Len(requests) <= 12
    /\ pc = "exit" => (Done \/ Failed) /\ ~ (Done /\ Failed)
    /\ pc = "exit" /\ ~ WriteFailed => (Failed <=> FetchFailed \/ ParseFailed)
    /\ FetchFailed => Len(errors) = 4 /\ \A v \in 1..4 : CandidateFailed(v)

\* what a run has left to do: the requests of its budget of 12 not yet
\* made, and the stages of main still ahead
StagesAhead ==
    CASE pc = "main"  -> 4
      [] pc = "fetch" -> 3
      [] pc = "parse" -> 2
      [] pc = "write" -> 1
      [] pc = "exit"  -> 0
Remaining == (12 - Len(requests)) + StagesAhead

\* the run can go on: Parse has no guard besides its stage (all its
\* branches are total), the other steps are asked of the model
CanStep ==
    \/ pc = "parse"
    \/ ENABLED (Start \/ AttemptReturns \/ AttemptRaises \/ WriteFile)

\* C15: whatever the network does, a run reaches its exit, where it is
\* either DONE (records produced and written, status 0) or FAILED (status
\* 2: every candidate exhausted, or nothing parsed; a refused write of the
\* file also ends here), never both and nothing else, and it has made at
\* most 4 * 3 = 12 requests. Termination is stated on finite runs: a run
\* that is not at its exit can take a step, every step takes what remains
\* to do down, what remains is never negative, and no step leaves the
\* exit.
C15_Terminates ==
    /\ [] C15_Terminal
    /\ [] (pc = "exit" \/ CanStep)
    /\ [] (Remaining >= 0)
    /\ [][Remaining' < Remaining]_vars
    /\ [][pc # "exit"]_vars

\* C15 witness: the longest run: twelve requests, every one a network
\* error, ending FAILED.
C15_Witness ==
    /\ Failed
    /\ Len(requests) = 12
    /\ \A i \in 1..12 : requests[i].result = "neterr"

---------------------------------------------------------------------------
(* C16: html is the text of the first content child.                      *)

\* the nodes records are made of: the items, or with none the Atom entries
LocatedNodes == IF ItemNodes # <<>> THEN ItemNodes ELSE EntryNodes

\* v is the html the children of n give: the text of the first child, in
\* document order, with a content-like tag, as it is; empty when that child
\* has no text or no child has such a tag
IsHtmlOf(v, n) ==
    IF ChildrenOf(n, ContentLikeTags) = {} THEN v = <<>>
    ELSE \E k \in 1..Len(n.children) :
            /\ FirstChild(n, ContentLikeTags, k)
            /\ v = IF n.children[k].has_text THEN n.children[k].text ELSE <<>>

\* C16: the html of every record parse_rss returns is the text of the first
\* child of its node whose tag contains, in any letter case, content:encoded,
\* content or description (of the explored tags: {...content/}encoded,
\* description, Content and the Atom content), empty when that child has no
\* text or there is no such child; later such children change nothing.
C16_HtmlFirstMatch ==
    ParseSucceeded =>
        /\ Len(posts) = Len(LocatedNodes)
        /\ \A i \in 1..Len(posts) : IsHtmlOf(posts[i].html, LocatedNodes[i])

\* C16 witness: an item whose first content child is named Content and
\* whose second is a description gave the text of the first, leading blank
\* included.
C16_Witness ==
    /\ pc = "write"
    /\ raw = Doc(<<Node(T_item, <<El(T_Content, <<" ","C">>), El(T_description, <<"D">>)>>)>>)
    /\ posts[1].html = <<" ","C">>

---------------------------------------------------------------------------
(* C17: the five fields of a record, and where title, link and date come  *)
(* from.                                                                  *)

FIELDS == {"slug", "title", "link", "date", "html"}

\* v is a string: a finite sequence of characters
IsString(v) == DOMAIN v = 1..Len(v) /\ \A k \in 1..Len(v) : v[k] \in STRING

\* the child of n with this tag is absent or has no text
NoText(n, tag) ==
    \/ ChildrenOf(n, {tag}) = {}
    \/ \E k \in 1..Len(n.children) :
          FirstChild(n, {tag}, k) /\ (~n.children[k].has_text \/ n.children[k].text = <<>>)

\* the text of the first child of n with this tag as the document has it,
\* empty when there is none
TextOf(n, tag) ==
    IF NoText(n, tag) THEN <<>>
    ELSE LET k == CHOOSE k \in 1..Len(n.children) : FirstChild(n, {tag}, k)
         IN  n.children[k].text

\* every record has exactly the five fields, each a string, and a field
\* whose child is absent or without text is empty
C17_Shape ==
    /\ Len(posts) = Len(LocatedNodes)
    /\ \A i \in 1..Len(posts) :
          LET n == LocatedNodes[i]
          IN  /\ DOMAIN posts[i] = FIELDS
              /\ \A f \in FIELDS : IsString(posts[i][f])
              /\ NoText(n, T_title) => posts[i].title = <<>>
              /\ NoText(n, T_link) => posts[i].link = <<>>
              /\ NoText(n, T_pubDate) /\ NoText(n, T_published) => posts[i].date = <<>>

\* C17, as the specification states it: five string fields, empty where
\* the child is absent or has no text, and date the pubDate text when that
\* is non-empty and otherwise the published text.
C17_DateIsText ==
    ParseSucceeded =>
        /\ C17_Shape
        /\ \A i \in 1..Len(posts) :
              LET n == LocatedNodes[i]
              IN  posts[i].date = IF TextOf(n, T_pubDate) # <<>> THEN TextOf(n, T_pubDate)
                                  ELSE TextOf(n, T_published)

\* C17, amended: five string fields, empty where the child is absent or
\* has no text; title, link and date are taken with the white space around
\* them stripped, so a blank text counts as none, and date is the stripped
\* pubDate text when that is non-empty and otherwise the stripped published
\* text.
C17_DateIsStrippedText ==
    ParseSucceeded =>
        /\ C17_Shape
        /\ \A i \in 1..Len(posts) :
              LET n == LocatedNodes[i]
              IN  /\ posts[i].title = Strip(TextOf(n, T_title))
                  /\ posts[i].link = Strip(TextOf(n, T_link))
                  /\ posts[i].date = IF Strip(TextOf(n, T_pubDate)) # <<>>
                                     THEN Strip(TextOf(n, T_pubDate))
                                     ELSE Strip(TextOf(n, T_published))

\* C17 witness: an item with a blank pubDate and a published, and neither
\* title nor link, gave a record with the published date and empty title,
\* link and html.
C17_Witness ==
    /\ pc = "write"
    /\ raw = Doc(<<Node(T_item, <<El(T_pubDate, <<" ">>), El(T_published, <<"d","2">>)>>)>>)
    /\ posts = <<[slug |-> <<>>, title |-> <<>>, link |-> <<>>, date |-> <<"d","2">>,
                  html |-> <<>>]>>

---------------------------------------------------------------------------
(* C18: one record per located node, so parse_rss never returns nothing.  *)

\* C18: when parse_rss has returned, there are as many records as located
\* nodes (items, or with none Atom entries) and at least one; a well-formed
\* document with a located node always makes it return; hence the error
\* "Found feed items but couldn't extract post data" is never raised, and
\* main never prints its no-posts warning nor exits with the warning
\* status.
C18_OneRecordPerNode ==
    /\ ParseSucceeded => Len(posts) = Len(LocatedNodes) /\ Len(posts) >= 1
    /\ (ParseDone /\ raw.wellformed /\ LocatedNodes # <<>>) => ParseSucceeded
    /\ exc.msg # "Found feed items but couldn't extract post data"
    /\ status # EXIT_WARNING
    /\ ~ Printed("Warning: No posts found in feed")

\* C18 witness: an item with no children at all still gave its record, all
\* five fields empty, and main went on to write it.
C18_Witness ==
    /\ pc = "exit"
    /\ raw = Doc(<<Node(T_item, <<>>)>>)
    /\ posts = <<[slug |-> <<>>, title |-> <<>>, link |-> <<>>, date |-> <<>>, html |-> <<>>]>>
    /\ status = EXIT_SUCCESS

---------------------------------------------------------------------------
(* C19: an error that is neither URLError nor HTTPError is not retried,   *)
(* and fetch_feed treats it like any other failure of the candidate.      *)

\* the step makes a request that fails with such an error
OtherErrorAttempt ==
    /\ Len(requests') = Len(requests) + 1
    /\ requests'[Len(requests')].result = "other"

\* ... then there is no wait, the failure is recorded with the error's
\* text, and the next candidate is current with its attempts unused, or
\* with none left the run ends in the aggregate error
C19_Step ==
    OtherErrorAttempt =>
        /\ raised'.type \notin {"URLError", "HTTPError"}
        /\ sleeps' = sleeps
        /\ errors' = Append(errors, [url |-> url, reason |-> raised'.msg])
        /\ IF variant < 4
           THEN /\ pc' = "fetch"
                /\ variant' = variant + 1
                /\ url' = FourCandidates(base_url)[variant + 1]
                /\ attempt' = 0
           ELSE AllFailed'

\* C19: an attempt failing with an error other than URLError/HTTPError is
\* the last request to its candidate, whatever is left of max_retries, and
\* is followed by no wait; fetch_feed records the failure and goes on to
\* the next candidate, so the run is not over unless it was the fourth.
C19_OtherErrorsNotRetried ==
    /\ [] (\A i \in 1..Len(requests) :
              requests[i].result = "other" =>
                  \A j \in RequestsTo(requests[i].variant) : j <= i)
    /\ [] (\A i \in 1..Len(requests) :
              (requests[i].result = "other" /\ i < Len(requests))
                  => requests[i + 1].variant = requests[i].variant + 1)
    /\ [][C19_Step]_vars

\* C19 witness: the first attempt on the first candidate ended in a read
\* timeout; without any wait the second candidate was requested and
\* returned the feed.
C19_Witness ==
    /\ pc = "parse"
    /\ Len(requests) = 2
    /\ requests[1].result = "other"
    /\ requests[1].variant = 1
    /\ requests[2].variant = 2
    /\ sleeps = <<>>
    /\ errors = <<[url |-> FourCandidates(base_url)[1],
                   reason |-> "The read operation timed out"]>>

===========================================================================
